---- MODULE Spec2Model ----
(***************************************************************************)
(* Component lifecycle tree of src/index.js: bind/unbind, ready/failed,    *)
(* close cascades and the relay of diagnostic events.                      *)
(*                                                                         *)
(* Every public call is one action: JavaScript runs a call and all the     *)
(* listeners it triggers to completion.  Promise reactions run later, as   *)
(* the separate action Settle.                                             *)
(***************************************************************************)
EXTENDS Integers, Sequences, FiniteSets, TLC

(* ------------------------------ bounds --------------------------------- *)
NComp == 3          \* components constructed by the application
MaxWrappers == 1    \* ComponentWrapper instances bind() may create
MaxBinds == 2       \* successful bind() calls in one behaviour
MaxFut == 1         \* wait_for_ready() futures outstanding in one behaviour

(* ------------------------------ universe ------------------------------- *)
None == 0
UserComp == 1 .. NComp
Wrappers == (NComp + 1) .. (NComp + MaxWrappers)
Comp == UserComp \cup Wrappers
PlainX == NComp + MaxWrappers + 1   \* a plain emitter with close(), no $component
Plain == {PlainX}
Obj == Comp \cup Plain
Errs == {"e1", "e2"}
NoErr == "none"
NoHook == [st |-> "none", calls |-> 0]   \* no close_async
(* the error each component fails with: the root's differs from the rest *)
ErrOf(c) == IF c = 1 THEN "e1" ELSE "e2"
Tick == "tick"      \* the event name given to link_event

VARIABLES
    exists,     \* [Comp -> BOOLEAN]   the object has been constructed
    closed,     \* [Comp -> BOOLEAN]   `closed` (line 41)
    cleaned,    \* [Comp -> BOOLEAN]   removeAllListeners() has run (line 133)
    parent,     \* [Comp -> Comp \cup {None}]   $component.parent
    bound,      \* [Comp -> BOOLEAN]   $component.bound
    children,   \* [Comp -> SUBSET Comp]   `components`
    weakEdge,   \* [Comp -> BOOLEAN]   `weak` argument of the bind that attached it
    lst,        \* [Obj -> Seq(listener)]   listeners, in registration order
    rstate,     \* [Comp -> {"pending","ready","failed"}]   state of ready_promise
    rerr,       \* [Comp -> Errs \cup {NoErr}]   rejection reason of ready_promise
    xclosed,    \* [Plain -> BOOLEAN]   the plain object has been closed
    emits,      \* [Comp -> Nat]   number of 'close' events emitted
    detaches,   \* [Comp -> Nat]   number of parent.unbind(this) made by close
    hook,       \* [Comp -> [st, calls]]   close_async: its state, and the calls made
    futs,       \* Seq of futures returned by wait_for_ready()
    nbinds,     \* number of successful bind() calls so far
    emitCopy,   \* BOOLEAN  emit() iterates over a copy of the listener list
    rec,        \* BOOLEAN  the calls are recorded in op and log
    op,         \* the last call made, with the facts of the state it was made in
    log         \* events seen by the application's listeners during the last call

core == <<exists, closed, cleaned, parent, bound, children, weakEdge, lst,
          rstate, rerr, xclosed, emits, detaches, hook>>
vars == <<exists, closed, cleaned, parent, bound, children, weakEdge, lst,
          rstate, rerr, xclosed, emits, detaches, hook, futs, nbinds, emitCopy, rec,
          op, log>>

(* The mutable program state as one record, threaded through the handlers. *)
Cur ==
    [exists |-> exists, closed |-> closed, cleaned |-> cleaned, parent |-> parent,
     bound |-> bound, children |-> children, weakEdge |-> weakEdge, lst |-> lst,
     rstate |-> rstate, rerr |-> rerr, xclosed |-> xclosed, emits |-> emits,
     detaches |-> detaches, hook |-> hook, log |-> {}, path |-> {}, thrown |-> FALSE]

Commit(s) ==
    /\ exists' = s.exists
    /\ closed' = s.closed
    /\ cleaned' = s.cleaned
    /\ parent' = s.parent
    /\ bound' = s.bound
    /\ children' = s.children
    /\ weakEdge' = s.weakEdge
    /\ lst' = s.lst
    /\ rstate' = s.rstate
    /\ rerr' = s.rerr
    /\ xclosed' = s.xclosed
    /\ emits' = s.emits
    /\ detaches' = s.detaches
    /\ hook' = s.hook
    /\ log' = IF rec THEN s.log ELSE {}

(* ------------------------------ listeners ------------------------------ *)
(* who: the object the handler acts on; managed: registered through who's  *)
(* EventManager ($on), so who's unsubscribe_all() removes it.              *)
L(ev, kind, who, managed) == [ev |-> ev, kind |-> kind, who |-> who, managed |-> managed]

NoData == [type |-> "none", source |-> None, origin |-> None, error |-> NoErr]
ErrData(e) == [type |-> "error", source |-> None, origin |-> None, error |-> e]

Has(seq, l) == \E i \in 1 .. Len(seq) : seq[i] = l

RemoveAllListeners(s, c) == [s EXCEPT !.lst[c] = <<>>, !.cleaned[c] = TRUE]

UnsubscribeAll(s, c) ==
    [s EXCEPT !.lst = [t \in Obj |->
        SelectSeq(s.lst[t], LAMBDA l : ~(l.managed /\ l.who = c))]]

(* unbind (lines 68-78), on a state in which sub is a child of p *)
UnbindKeepsBound(s, p, sub) ==
    [s EXCEPT !.children[p] = @ \ {sub}, !.parent[sub] = None, !.weakEdge[sub] = FALSE]
UnbindSt(s, p, sub) ==
    [s EXCEPT !.children[p] = @ \ {sub}, !.bound[sub] = FALSE, !.parent[sub] = None,
              !.weakEdge[sub] = FALSE]

RECURSIVE Close(_, _), Deliver(_, _, _, _, _)

(* emit (EventEmitter): listeners of the event, in registration order.     *)
(* path holds the emits of the event that are on the call stack: a relay   *)
(* that comes back to one of them recurses until the stack overflows, and  *)
(* the RangeError unwinds the whole call (thrown).                         *)
Emit(s, t, ev, data) ==
    LET snap == SelectSeq(s.lst[t], LAMBDA l : l.ev = ev)
        seen == t \in Comp /\ ~s.cleaned[t] /\ ev \in {"warn", "info", "error", Tick}
        s0 == IF seen THEN [s EXCEPT !.log = @ \cup {[at |-> t, ev |-> ev, data |-> data]}]
              ELSE s
        s1 == Deliver([s0 EXCEPT !.path = @ \cup {<<t, ev>>}], t, snap, 1, data)
    IN IF <<t, ev>> \in s.path THEN [s EXCEPT !.thrown = TRUE]
       ELSE [s1 EXCEPT !.path = s.path]

(* warn / info (lines 148-149): _.assign({type, source: this}, data) *)
Tagged(c, kind, data) ==
    [type |-> IF data.type = "none" THEN kind ELSE data.type,
     source |-> c, origin |-> data.origin, error |-> data.error]

(* set_failed (lines 87-101) *)
SetFailedNoClose(s, c, e) ==
    IF s.rstate[c] = "pending"
    THEN [s EXCEPT !.rstate[c] = "failed", !.rerr[c] = e]
    ELSE s
SetFailed(s, c, e) ==
    LET s1 == IF s.rstate[c] = "pending"
              THEN [s EXCEPT !.rstate[c] = "failed", !.rerr[c] = e]
              ELSE s
    IN Close(s1, c)

(* close() of a plain object: closes once and emits 'close' *)
PlainClose(s, x) ==
    IF s.xclosed[x] THEN s
    ELSE Emit([s EXCEPT !.xclosed[x] = TRUE], x, "close", NoData)

(* try { ... } catch (err) { console.error(...) } (lines 215-219, 237-241) *)
NotCaught(s) == s
Caught(s) == [s EXCEPT !.thrown = FALSE]

(* what a 'close' listener of the application sees when it is called on t: *)
(* the parent t has, and whether the listener is still registered          *)
Seen(s, t, l) ==
    [at |-> t, ev |-> "close",
     data |-> [type |-> IF l.kind = "app_throw" THEN "throw" ELSE "close",
               source |-> s.parent[t],
               origin |-> IF Has(s.lst[t], l) THEN t ELSE None,
               error |-> NoErr]]

(* the body of one listener *)
Handle(s, t, l, data) ==
    CASE l.kind = "set_failed" -> SetFailed(s, l.who, data.error)
      [] l.kind \in {"down", "up"} -> Caught(Close(s, l.who))
      [] l.kind = "wrap_err" -> Close(s, l.who)
      [] l.kind = "down_plain" -> Caught(PlainClose(s, l.who))
      [] l.kind = "relay" -> Emit(s, l.who, l.ev, data)
      [] l.kind = "app_close" -> [s EXCEPT !.log = @ \cup {Seen(s, t, l)}]
      [] l.kind = "app_throw" ->
            [s EXCEPT !.log = @ \cup {Seen(s, t, l)}, !.thrown = TRUE]
      [] l.kind = "relay_err" ->
            Emit(s, l.who, "warn",
                 Tagged(l.who, "warn",
                        [type |-> "subcomponent-error", source |-> None,
                         origin |-> t, error |-> data.error]))

Deliver(s, t, snap, i, data) ==
    IF i > Len(snap) \/ s.thrown THEN s
    ELSE LET l == snap[i]
             called == emitCopy \/ Has(s.lst[t], l)
         IN Deliver(IF called THEN Handle(s, t, l, data) ELSE s, t, snap, i + 1, data)

(* do_close (lines 121-136) *)
DoCloseNoDetach(s, c) ==
    LET s1 == Emit([s EXCEPT !.emits[c] = @ + 1], c, "close", NoData)
    IN UnsubscribeAll(RemoveAllListeners(s1, c), c)
DoCloseDetachFirst(s, c) ==
    LET p == s.parent[c]
        s0 == IF p = None THEN s
              ELSE [UnbindSt(s, p, c) EXCEPT !.detaches[c] = @ + 1]
        s1 == Emit([s0 EXCEPT !.emits[c] = @ + 1], c, "close", NoData)
    IN UnsubscribeAll(RemoveAllListeners(s1, c), c)
DoClose(s, c) ==
    LET s1 == Emit([s EXCEPT !.emits[c] = @ + 1], c, "close", NoData)
        p == s1.parent[c]
        s2 == IF p = None THEN s1
              ELSE [UnbindSt(s1, p, c) EXCEPT !.detaches[c] = @ + 1]
    IN IF p # None /\ c \notin s1.children[p]
       THEN [s1 EXCEPT !.thrown = TRUE]   \* parent.unbind(this) throws: finally ends here
       ELSE UnsubscribeAll(RemoveAllListeners(s2, c), c)

(* close (lines 112-142): with close_async, do_close is left to the        *)
(* reactions of the promise the hook returns (line 138)                    *)
Close(s, c) ==
    IF s.closed[c] THEN s
    ELSE IF s.hook[c].st = "none"
         THEN DoClose([s EXCEPT !.closed[c] = TRUE], c)
         ELSE [s EXCEPT !.closed[c] = TRUE,
                        !.hook[c] = [st |-> "running", calls |-> @.calls + 1]]

(* .catch(err => this.emit('error', err)).then(do_close) (line 138): an    *)
(* exception out of the catch handler rejects the chain, and do_close is   *)
(* not called                                                              *)
SettleHook(s, c, fails) ==
    LET s1 == IF fails THEN Emit(s, c, "error", ErrData(ErrOf(c))) ELSE s
    IN IF s1.thrown THEN [s1 EXCEPT !.hook[c].st = "lost"]
       ELSE DoClose([s1 EXCEPT !.hook[c].st = IF fails THEN "failed" ELSE "done"], c)


(* ------------------------------ the tree -------------------------------- *)
RECURSIVE Reach(_, _)
Reach(ch, set) ==
    LET next == set \cup UNION {ch[c] : c \in set}
    IN IF next = set THEN set ELSE Reach(ch, next)

(* the components below c: its children and theirs, transitively *)
Desc(ch, c) == Reach(ch, ch[c])

RECURSIVE Up(_, _, _)
Up(par, c, acc) ==
    IF par[c] = None \/ par[c] \in acc THEN acc
    ELSE Up(par, par[c], acc \cup {par[c]})

(* the components above c: its parent and the parent's, transitively *)
Anc(par, c) == Up(par, c, {})

(* -------------------------------- bind ---------------------------------- *)
Append2(s, t, l) == [s EXCEPT !.lst[t] = Append(@, l)]

(* bind_child_to_parent (lines 208-244) *)
BindChildToParent(s, child, par, weak) ==
    LET s1 == IF child \in Comp
              THEN Append2(s, par, L("close", "down", child, TRUE))
              ELSE Append2(s, par, L("close", "down_plain", child, FALSE))
        s2 == Append2(s1, child, L("warn", "relay", par, TRUE))
        s3 == Append2(s2, child, L("info", "relay", par, TRUE))
        s4 == Append2(s3, child, L("error", "relay_err", par, TRUE))
    IN IF weak THEN s4 ELSE Append2(s4, child, L("close", "up", par, TRUE))

(* Component(name, is_ready) (lines 25-206): the fresh object *)
Construct(s, c, isReady) ==
    [s EXCEPT !.exists[c] = TRUE,
              !.lst[c] = <<L("error", "set_failed", c, FALSE)>>,
              !.rstate[c] = IF isReady THEN "ready" ELSE "pending"]

(* ComponentWrapper(obj) (lines 246-257) *)
ComponentWrapper(s, w, obj) ==
    LET s1 == BindChildToParent(Construct(s, w, TRUE), obj, w, FALSE)
    IN Append2(s1, obj, L("error", "wrap_err", w, TRUE))

FreeWrappers == {w \in Wrappers : ~exists[w]}
NewWrapper == CHOOSE w \in FreeWrappers : \A v \in FreeWrappers : w <= v

(* bind (lines 59-65), sub a component that is not bound *)
BindSt(s, p, sub, weak) ==
    BindChildToParent(
        [s EXCEPT !.children[p] = @ \cup {sub}, !.bound[sub] = TRUE,
                  !.parent[sub] = p, !.weakEdge[sub] = weak],
        sub, p, weak)

(* bind throws "double-bound" (line 59) *)
BindThrowsSameParent(s, p, sub) == sub \in Comp /\ s.parent[sub] = p
BindThrows(s, p, sub) == sub \in Comp /\ s.bound[sub]

(* what the state was when a call was made on c *)
NoPre == [closed |-> {}, parent |-> None, weak |-> FALSE, anc |-> {}, desc |-> {},
          sibs |-> {}]
Pre(c) ==
    [closed |-> {x \in Comp : closed[x]}, parent |-> parent[c], weak |-> weakEdge[c],
     anc |-> Anc(parent, c), desc |-> Desc(children, c),
     sibs |-> IF parent[c] = None THEN {} ELSE children[parent[c]] \ {c}]
OpRec(name, c, sub, weak, err, res, pre) ==
    [name |-> name, c |-> c, sub |-> sub, weak |-> weak, err |-> err, res |-> res,
     pre |-> pre, chained |-> FALSE, kids |-> {}]
NoOp == OpRec("none", None, None, FALSE, NoErr, "ok", NoPre)
Op(name, c, sub, weak, err, res, pre) ==
    IF rec THEN OpRec(name, c, sub, weak, err, res, pre) ELSE NoOp

Res(r) == IF r.thrown THEN "throw" ELSE "ok"

Live == {c \in Comp : exists[c]}

(* $component.bind(sub, weak) (lines 50-66) *)
Bind(p, sub, weak) ==
    /\ p \in Live
    /\ sub \in Live \cup Plain
    /\ IF BindThrows(Cur, p, sub)
       THEN /\ op' = Op("bind", p, sub, FALSE, NoErr, "throw", NoPre)
            /\ log' = {}
            /\ UNCHANGED <<core, futs, nbinds, emitCopy, rec>>
       ELSE /\ nbinds < MaxBinds
            /\ sub \in Plain => FreeWrappers # {}
            /\ IF sub \in Plain
               THEN Commit(BindSt(ComponentWrapper(Cur, NewWrapper, sub), p, NewWrapper, FALSE))
               ELSE Commit(BindSt(Cur, p, sub, weak))
            /\ nbinds' = nbinds + 1
            /\ op' = [Op("bind", p, sub, weak, NoErr, "ok", NoPre) EXCEPT
                          !.kids = IF rec THEN children[p] ELSE {}]
            /\ UNCHANGED <<futs, emitCopy, rec>>

(* unbind throws "not bound to this component" (line 73) *)
UnbindThrows(s, p, sub) == sub \notin s.children[p]

(* the call comes right after a successful p.bind(sub): it then carries   *)
(* the children p had before that bind                                     *)
Chained(name, p, sub, res) ==
    [Op(name, p, sub, FALSE, NoErr, res, NoPre) EXCEPT
        !.chained = op.name = "bind" /\ op.res = "ok" /\ op.c = p /\ op.sub = sub,
        !.kids = IF op.name = "bind" /\ op.res = "ok" /\ op.c = p /\ op.sub = sub
                 THEN op.kids ELSE {}]

(* $component.unbind(sub) (lines 68-78) *)
Unbind(p, sub) ==
    /\ p \in Live
    /\ sub \in Live \cup Plain
    /\ IF UnbindThrows(Cur, p, sub)
       THEN /\ op' = Chained("unbind", p, sub, "throw")
            /\ log' = {}
            /\ UNCHANGED <<core, futs, nbinds, emitCopy, rec>>
       ELSE /\ Commit(UnbindSt(Cur, p, sub))
            /\ op' = Chained("unbind", p, sub, "ok")
            /\ UNCHANGED <<futs, nbinds, emitCopy, rec>>

(* ------------------------------ link_event ------------------------------ *)
(* link_event (lines 103-110): for each child, in the order of the set, a  *)
(* relay of the event to p and, if recurse, the child's own link_event     *)
(* (line 107: called with the event only).                                 *)
RECURSIVE LinkChildren(_, _, _, _)
LinkChildren(s, p, todo, recurse) ==
    IF todo = {} THEN s
    ELSE LET c == CHOOSE x \in todo : \A y \in todo : x <= y
             s1 == Append2(s, c, L(Tick, "relay", p, TRUE))
             s2 == IF recurse THEN LinkChildren(s1, c, s1.children[c], FALSE) ELSE s1
         IN LinkChildren(s2, p, todo \ {c}, recurse)

LinkEventSt(s, p, recurse) == LinkChildren(s, p, s.children[p], recurse)

Linked(p) == \E t \in Obj : \E i \in 1 .. Len(lst[t]) : lst[t][i].ev = Tick /\ lst[t][i].who = p

(* $component.link_event(event, recurse), once for each component *)
LinkEvent(p, recurse) ==
    /\ p \in Live
    /\ ~Linked(p)
    /\ Commit(LinkEventSt(Cur, p, recurse))
    /\ op' = Op(IF recurse THEN "link_event_recurse" ELSE "link_event", p, None, FALSE,
                 NoErr, "ok", NoPre)
    /\ UNCHANGED <<futs, nbinds, emitCopy, rec>>

(* emit(event) on a component *)
EmitEvent(c) ==
    /\ c \in Live
    /\ LET r == Emit(Cur, c, Tick, NoData)
       IN /\ Commit(r)
          /\ op' = Op("emit_event", c, None, FALSE, NoErr, Res(r), NoPre)
    /\ UNCHANGED <<futs, nbinds, emitCopy, rec>>

(* ------------------------------ lifecycle ------------------------------- *)
(* set_ready (lines 80-85): resolves ready_promise if it is still pending *)
SetReadyAlways(s, c) == [s EXCEPT !.rstate[c] = "ready", !.rerr[c] = NoErr]
SetReady(s, c) ==
    IF s.rstate[c] = "pending" THEN [s EXCEPT !.rstate[c] = "ready"] ELSE s

Ready(c) ==
    /\ c \in Live
    /\ Commit(SetReady(Cur, c))
    /\ op' = Op("ready", c, None, FALSE, NoErr, "ok", NoPre)
    /\ UNCHANGED <<futs, nbinds, emitCopy, rec>>

(* $component.failed(err) *)
Failed(c, e) ==
    /\ c \in Live
    /\ LET r == SetFailed(Cur, c, e)
       IN /\ Commit(r)
          /\ op' = Op("failed", c, None, FALSE, e, Res(r), Pre(c))
    /\ UNCHANGED <<futs, nbinds, emitCopy, rec>>

(* close() called by the application *)
CloseCall(c) ==
    /\ c \in Live
    /\ LET r == Close(Cur, c)
       IN /\ Commit(r)
          /\ op' = Op("close", c, None, FALSE, NoErr, Res(r), Pre(c))
    /\ UNCHANGED <<futs, nbinds, emitCopy, rec>>

(* emit('error', err) on a component *)
EmitError(c, e) ==
    /\ c \in Live
    /\ LET r == Emit(Cur, c, "error", ErrData(e))
       IN /\ Commit(r)
          /\ op' = Op("emit_error", c, None, FALSE, e, Res(r), Pre(c))
    /\ UNCHANGED <<futs, nbinds, emitCopy, rec>>

(* $component.warn(data) / $component.info(data) (lines 147-149) *)
Diag(c, kind) ==
    /\ c \in Live
    /\ LET r == Emit(Cur, c, kind, Tagged(c, kind, NoData))
       IN /\ Commit(r)
          /\ op' = Op(kind, c, None, FALSE, NoErr, Res(r), NoPre)
    /\ UNCHANGED <<futs, nbinds, emitCopy, rec>>

(* this.close_async = f, set on an open component that has none *)
SetHook(c) ==
    /\ c \in Live
    /\ ~closed[c]
    /\ hook[c].st = "none"
    /\ hook' = [hook EXCEPT ![c].st = "idle"]
    /\ op' = Op("set_hook", c, None, FALSE, NoErr, "ok", NoPre)
    /\ log' = {}
    /\ UNCHANGED <<exists, closed, cleaned, parent, bound, children, weakEdge, lst,
                   rstate, rerr, xclosed, emits, detaches, futs, nbinds, emitCopy, rec>>

(* the promise returned by close_async settles, and its reactions run *)
HookSettles(c, fails) ==
    /\ c \in Live
    /\ hook[c].st = "running"
    /\ LET r == SettleHook(Cur, c, fails)
       IN /\ Commit(r)
          /\ op' = Op("hook_settles", c, None, FALSE, IF fails THEN ErrOf(c) ELSE NoErr,
                       Res(r), Pre(c))
    /\ UNCHANGED <<futs, nbinds, emitCopy, rec>>

(* this.on('close', f) by the application; f returns, or throws.  One     *)
(* such listener is registered at a time.                                  *)
AppListeners ==
    {d \in Comp : \E i \in 1 .. Len(lst[d]) : lst[d][i].kind \in {"app_close", "app_throw"}}

OnClose(c, throws) ==
    /\ c \in Live
    /\ AppListeners = {}
    /\ Commit(Append2(Cur, c, L("close", IF throws THEN "app_throw" ELSE "app_close",
                                c, FALSE)))
    /\ op' = Op("on_close", c, None, FALSE, NoErr, "ok", NoPre)
    /\ UNCHANGED <<futs, nbinds, emitCopy, rec>>

(* the plain object emits 'error', or is closed by its owner *)
PlainError(x, e) ==
    /\ LET r == Emit(Cur, x, "error", ErrData(e))
       IN /\ Commit(r)
          /\ op' = Op("plain_error", x, None, FALSE, e, Res(r), NoPre)
    /\ UNCHANGED <<futs, nbinds, emitCopy, rec>>

PlainCloseCall(x) ==
    /\ LET r == PlainClose(Cur, x)
       IN /\ Commit(r)
          /\ op' = Op("plain_close", x, None, FALSE, NoErr, Res(r), NoPre)
    /\ UNCHANGED <<futs, nbinds, emitCopy, rec>>

(* ------------------------------ readiness ------------------------------- *)
(* wait_for_ready (lines 144-145) recurses through the children; on a      *)
(* cycle the recursion never ends and the call throws RangeError.          *)
WaitThrows(r) == r \in Desc(children, r)

WaitForReady(r) ==
    /\ r \in Live
    /\ IF WaitThrows(r)
       THEN /\ op' = Op("wait", r, None, FALSE, NoErr, "throw", NoPre)
            /\ UNCHANGED futs
       ELSE /\ Len(futs) < MaxFut
            /\ futs' = Append(futs, [root |-> r, awaited |-> {r} \cup Desc(children, r),
                                     open |-> {c \in {r} \cup Desc(children, r) : ~closed[c]},
                                     status |-> "pending", err |-> NoErr])
            /\ op' = Op("wait", r, None, FALSE, NoErr, "ok", NoPre)
    /\ log' = {}
    /\ UNCHANGED <<core, nbinds, emitCopy, rec>>

(* Promise.all (line 145) fulfils when every promise it was given has *)
RootReady(f) == rstate[f.root] = "ready"
AllReady(f) == \A c \in f.awaited : rstate[c] = "ready"

(* the reason Promise.all rejects with: that of a rejected ready_promise *)
RootReason(f, c) == rerr[f.root]
Reason(f, c) == rerr[c]

(* the reactions of Promise.all (line 145): fulfil, or reject *)
Settle(i) ==
    /\ i \in 1 .. Len(futs)
    /\ futs[i].status = "pending"
    /\ \/ /\ AllReady(futs[i])
          /\ futs' = [futs EXCEPT ![i].status = "resolved"]
       \/ /\ \E c \in futs[i].awaited :
                /\ rstate[c] = "failed"
                /\ futs' = [futs EXCEPT ![i].status = "rejected",
                                        ![i].err = Reason(futs[i], c)]
    /\ op' = Op("settle", None, None, FALSE, NoErr, "ok", NoPre)
    /\ log' = {}
    /\ UNCHANGED <<core, nbinds, emitCopy, rec>>

(* ------------------------------ behaviours ------------------------------ *)
(* The state after the application has constructed the components in live, *)
(* those in ready with is_ready = true.                                    *)
Start(live, ready) ==
    /\ exists = [c \in Comp |-> c \in live]
    /\ closed = [c \in Comp |-> FALSE]
    /\ cleaned = [c \in Comp |-> FALSE]
    /\ parent = [c \in Comp |-> None]
    /\ bound = [c \in Comp |-> FALSE]
    /\ children = [c \in Comp |-> {}]
    /\ weakEdge = [c \in Comp |-> FALSE]
    /\ lst = [t \in Obj |-> IF t \in live THEN <<L("error", "set_failed", t, FALSE)>>
                            ELSE <<>>]
    /\ rstate = [c \in Comp |-> IF c \in ready THEN "ready" ELSE "pending"]
    /\ rerr = [c \in Comp |-> NoErr]
    /\ xclosed = [x \in Plain |-> FALSE]
    /\ emits = [c \in Comp |-> 0]
    /\ detaches = [c \in Comp |-> 0]
    /\ hook = [c \in Comp |-> NoHook]
    /\ futs = <<>>
    /\ nbinds = 0
    /\ op = NoOp
    /\ log = {}

Init ==
    /\ \E ready \in SUBSET UserComp : Start(UserComp, ready)
    /\ emitCopy \in BOOLEAN
    /\ rec = TRUE

Next ==
    \/ \E p \in Comp, sub \in Obj, weak \in BOOLEAN : Bind(p, sub, weak)
    \/ \E p \in Comp, sub \in Obj : Unbind(p, sub)
    \/ \E c \in Comp : Ready(c)
    \/ \E c \in Comp, e \in Errs : Failed(c, e)
    \/ \E c \in Comp : CloseCall(c)
    \/ \E c \in Comp, e \in Errs : EmitError(c, e)
    \/ \E c \in Comp, kind \in {"warn", "info"} : Diag(c, kind)
    \/ \E c \in Comp, throws \in BOOLEAN : OnClose(c, throws)
    \/ \E p \in Comp, recurse \in BOOLEAN : LinkEvent(p, recurse)
    \/ \E c \in Comp : EmitEvent(c)
    \/ \E c \in Comp : SetHook(c)
    \/ \E c \in Comp, fails \in BOOLEAN : HookSettles(c, fails)
    \/ \E x \in Plain, e \in Errs : PlainError(x, e)
    \/ \E x \in Plain : PlainCloseCall(x)
    \/ \E r \in Comp : WaitForReady(r)
    \/ \E i \in 1 .. MaxFut : Settle(i)

Spec == Init /\ [][Next]_vars

(* Trees of components that were constructed ready: binding, unbinding,    *)
(* closing and the relay of events.                                        *)
InitTree ==
    /\ Start(UserComp, UserComp)
    /\ emitCopy \in BOOLEAN
    /\ rec = TRUE

NextTree ==
    \/ \E p \in Comp, sub \in Comp, weak \in BOOLEAN : Bind(p, sub, weak)
    \/ \E p \in Comp, sub \in Comp : Unbind(p, sub)
    \/ \E c \in Comp : CloseCall(c)
    \/ \E c \in Comp : EmitError(c, "e1")

SpecTree == InitTree /\ [][NextTree]_vars

(* Two components and a plain emitter, which bind() wraps.                 *)
InitWrap ==
    /\ Start(1 .. 2, 1 .. 2)
    /\ emitCopy \in BOOLEAN
    /\ rec = TRUE

NextWrap ==
    \/ \E p \in Comp, sub \in Obj, weak \in BOOLEAN : Bind(p, sub, weak)
    \/ \E p \in Comp, sub \in Obj : Unbind(p, sub)
    \/ \E c \in Comp : CloseCall(c)
    \/ \E x \in Plain : PlainError(x, "e1")
    \/ \E x \in Plain : PlainCloseCall(x)

SpecWrap == InitWrap /\ [][NextWrap]_vars

(* Readiness: components constructed pending, and the futures of           *)
(* wait_for_ready().  Promise reactions are never withheld for ever.       *)
InitReady ==
    /\ Start(UserComp, {})
    /\ emitCopy = TRUE
    /\ rec = FALSE

NextReady ==
    \/ \E p \in Comp, sub \in Comp, weak \in BOOLEAN : Bind(p, sub, weak)
    \/ \E c \in Comp : Ready(c)
    \/ \E c \in Comp : Failed(c, ErrOf(c))
    \/ \E c \in Comp : CloseCall(c)
    \/ \E r \in Comp : WaitForReady(r)
    \/ \E i \in 1 .. MaxFut : Settle(i)

SpecReady == InitReady /\ [][NextReady]_vars /\ WF_vars(\E i \in 1 .. MaxFut : Settle(i))

(* Failure: two components, constructed pending or ready, which become    *)
(* ready, fail, receive 'error' events and are closed.                     *)
InitFail ==
    /\ \E ready \in SUBSET (1 .. 2) : Start(1 .. 2, ready)
    /\ emitCopy \in BOOLEAN
    /\ rec = TRUE

NextFail ==
    \/ \E p \in Comp, sub \in Comp, weak \in BOOLEAN : Bind(p, sub, weak)
    \/ \E c \in Comp : Ready(c)
    \/ \E c \in Comp : Failed(c, ErrOf(c))
    \/ \E c \in Comp : EmitError(c, ErrOf(c))
    \/ \E c \in Comp : CloseCall(c)

SpecFail == InitFail /\ [][NextFail]_vars

(* Close listeners of the application, which may throw.                   *)
InitThrow ==
    /\ Start(UserComp, UserComp)
    /\ emitCopy \in BOOLEAN
    /\ rec = TRUE

NextThrow ==
    \/ \E p \in Comp, sub \in Comp, weak \in BOOLEAN : Bind(p, sub, weak)
    \/ \E c \in Comp, throws \in BOOLEAN : OnClose(c, throws)
    \/ \E c \in Comp : CloseCall(c)

SpecThrow == InitThrow /\ [][NextThrow]_vars

(* Linked events: four components bound into a chain, 1 above 2 above 3   *)
(* above 4, the lower three bound weak or strong.                          *)
Fresh(live, ready) ==
    [exists |-> [c \in Comp |-> c \in live],
     closed |-> [c \in Comp |-> FALSE],
     cleaned |-> [c \in Comp |-> FALSE],
     parent |-> [c \in Comp |-> None],
     bound |-> [c \in Comp |-> FALSE],
     children |-> [c \in Comp |-> {}],
     weakEdge |-> [c \in Comp |-> FALSE],
     lst |-> [t \in Obj |-> IF t \in live THEN <<L("error", "set_failed", t, FALSE)>>
                             ELSE <<>>],
     rstate |-> [c \in Comp |-> IF c \in ready THEN "ready" ELSE "pending"],
     rerr |-> [c \in Comp |-> NoErr],
     xclosed |-> [x \in Plain |-> FALSE],
     emits |-> [c \in Comp |-> 0],
     detaches |-> [c \in Comp |-> 0],
     hook |-> [c \in Comp |-> NoHook],
     log |-> {}, path |-> {}, thrown |-> FALSE]

RECURSIVE Chain(_, _, _)
Chain(s, c, weak) ==
    IF c + 1 \notin Comp THEN s
    ELSE Chain(BindSt(s, c, c + 1, weak), c + 1, weak)

InitLink ==
    /\ \E weak \in BOOLEAN :
          LET s == Chain(Fresh(Comp, Comp), 1, weak)
          IN /\ exists = s.exists /\ closed = s.closed /\ cleaned = s.cleaned
             /\ parent = s.parent /\ bound = s.bound /\ children = s.children
             /\ weakEdge = s.weakEdge /\ lst = s.lst /\ rstate = s.rstate
             /\ rerr = s.rerr /\ xclosed = s.xclosed /\ emits = s.emits
             /\ detaches = s.detaches /\ hook = s.hook
    /\ futs = <<>>
    /\ nbinds = Cardinality(Comp) - 1
    /\ op = NoOp
    /\ log = {}
    /\ emitCopy \in BOOLEAN
    /\ rec = TRUE

NextLink ==
    \/ \E p \in Comp, recurse \in BOOLEAN : LinkEvent(p, recurse)
    \/ \E c \in Comp : EmitEvent(c)
    \/ \E p \in Comp, sub \in Comp : Unbind(p, sub)
    \/ \E c \in Comp : CloseCall(c)

SpecLink == InitLink /\ [][NextLink]_vars

(* Three components, two of which may be given an asynchronous close hook. *)
InitAsync ==
    /\ Start(UserComp, UserComp)
    /\ emitCopy \in BOOLEAN
    /\ rec = TRUE

NextAsync ==
    \/ \E p \in Comp, sub \in Comp, weak \in BOOLEAN : Bind(p, sub, weak)
    \/ \E c \in 1 .. 2 : SetHook(c)
    \/ \E c \in Comp : CloseCall(c)
    \/ \E c \in Comp, fails \in BOOLEAN : HookSettles(c, fails)

SpecAsync == InitAsync /\ [][NextAsync]_vars

(* ------------------------------- claims --------------------------------- *)
WasOpen(c) == c \notin op.pre.closed

(* C1: closing a child closes its parent if and only if the edge is strong: *)
(* after close() on an open child c of an open parent P (P not below c), P  *)
(* and c's siblings are closed when the edge is strong, and P and the       *)
(* siblings that were open stay open when the edge is weak.                 *)
C1_Claim ==
    (/\ op.name = "close" /\ WasOpen(op.c)
     /\ op.pre.parent \notin {None, op.c}
     /\ WasOpen(op.pre.parent)
     /\ op.pre.parent \notin op.pre.desc)
    => IF op.pre.weak
       THEN /\ ~closed[op.pre.parent]
            /\ \A x \in op.pre.sibs \ op.pre.desc : WasOpen(x) => ~closed[x]
       ELSE /\ closed[op.pre.parent]
            /\ \A x \in op.pre.sibs : closed[x]

(* C2: after close() on an open component, every component that was its    *)
(* child, and every component that was below it, is closed.                *)
C2_Claim ==
    (op.name = "close" /\ WasOpen(op.c)) => \A d \in op.pre.desc : closed[d]

(* C3: close() is idempotent: however often it is called, by the           *)
(* application or by the cascades, a component emits one 'close' event and *)
(* is detached from the parent it had exactly once.                        *)
C3_CloseOnce ==
    [][\A c \in Comp :
        /\ emits'[c] <= 1 /\ detaches'[c] <= 1
        /\ closed'[c] => emits'[c] = 1
        /\ closed[c] => (closed'[c] /\ emits'[c] = emits[c] /\ detaches'[c] = detaches[c])
        /\ (~closed[c] /\ closed'[c] /\ parent[c] # None)
             => (detaches'[c] = 1 /\ c \notin children'[parent[c]])
        /\ (~closed[c] /\ closed'[c] /\ parent[c] = None) => detaches'[c] = 0]_vars

C3_Witness ==
    /\ op.name = "close" /\ ~WasOpen(op.c)
    /\ emits[op.c] = 1 /\ detaches[op.c] = 1
    /\ \E d \in Comp \ {op.c} : closed[d] /\ detaches[d] = 1

(* C8: bind(sub) throws when sub is bound to a parent, unbind(sub) throws  *)
(* when sub is not a child of the caller, and a call that throws leaves    *)
(* every parent pointer, bound flag and child set as it was.               *)
C8_ViolationsThrow ==
    [][/\ (op' # op /\ op'.name = "bind" /\ op'.sub \in Comp /\ bound[op'.sub])
            => op'.res = "throw"
       /\ (op' # op /\ op'.name = "unbind" /\ op'.sub \notin children[op'.c])
            => op'.res = "throw"
       /\ (op'.name \in {"bind", "unbind"} /\ op'.res = "throw")
            => UNCHANGED <<parent, bound, children>>]_vars

C8_Witness ==
    /\ op.name = "bind" /\ op.res = "throw"
    /\ parent[op.sub] \notin {None, op.c}

(* C10: a component is marked bound exactly when it has a parent, and its  *)
(* parent is P exactly when it is in P's child set.                        *)
C10_OneParent ==
    \A c \in Comp :
        /\ bound[c] <=> parent[c] # None
        /\ \A q \in Comp : parent[c] = q <=> c \in children[q]

C10_Witness ==
    \E c, d \in Comp : c # d /\ bound[c] /\ closed[d] /\ detaches[d] = 1

(* C4: an 'error' emitted on an open leaf whose ancestors are open is seen *)
(* at every ancestor as a 'warn' of type subcomponent-error with the leaf  *)
(* as origin and the same payload, and at no ancestor as an 'error'.       *)
SubError(c, e) ==
    [type |-> "subcomponent-error", source |-> op.pre.parent, origin |-> c, error |-> e]

C4_Claim ==
    (/\ op.name = "emit_error" /\ WasOpen(op.c)
     /\ op.pre.desc = {} /\ op.pre.anc # {} /\ op.c \notin op.pre.anc
     /\ \A a \in op.pre.anc : WasOpen(a))
    => \A a \in op.pre.anc :
         /\ [at |-> a, ev |-> "warn", data |-> SubError(op.c, op.err)] \in log
         /\ ~\E l \in log : l.at = a /\ l.ev = "error"

(* C9: p.bind(x) followed at once by p.unbind(x) succeeds and gives p the  *)
(* child set it had before, and leaves x without parent and not bound.     *)
C9_Claim ==
    (op.name = "unbind" /\ op.chained)
    => /\ op.res = "ok"
       /\ children[op.c] = op.kids
       /\ op.sub \in Comp => (parent[op.sub] = None /\ ~bound[op.sub])

(* ------------------------- claims on readiness -------------------------- *)
Fut == 1 .. Len(futs)
Pending(f) == \E c \in f.awaited : rstate[c] = "pending"
Status(i) == IF i \in Fut THEN futs[i].status ELSE "none"

(* C5 as stated: while a component the future waits for is pending, the    *)
(* future is unsettled.                                                    *)
C5_Claim == \A i \in Fut : Pending(futs[i]) => futs[i].status = "pending"

(* C5, amended: the future is resolved only when the root and every        *)
(* component below it at the call are ready; while one of them is pending  *)
(* it is not resolved, and it is unsettled unless one of them has failed.  *)
C5_ResolvedOnlyWhenAllReady ==
    \A i \in Fut :
        /\ futs[i].status = "resolved" => \A c \in futs[i].awaited : rstate[c] = "ready"
        /\ (Pending(futs[i]) /\ \A c \in futs[i].awaited : rstate[c] # "failed")
              => futs[i].status = "pending"

C5_Witness ==
    \E i \in Fut :
        /\ futs[i].status = "resolved"
        /\ \E c, d \in futs[i].awaited :
              parent[d] = c /\ parent[c] = futs[i].root /\ c # d /\ d # futs[i].root

(* C6: a future rejects only with the reason of a component it waits for   *)
(* that has failed, keeps that outcome, and never stays pending once one   *)
(* of them has failed.                                                     *)
C6_RejectsWithFailure ==
    /\ [][\A i \in Fut :
            /\ (futs[i].status = "pending" /\ futs'[i].status = "rejected")
                 => \E c \in futs[i].awaited : rstate[c] = "failed" /\ rerr[c] = futs'[i].err
            /\ futs[i].status # "pending" => futs'[i] = futs[i]]_vars
    /\ \A i \in 1 .. MaxFut :
          (Status(i) = "pending" /\ \E c \in futs[i].awaited : rstate[c] = "failed")
          ~> (Status(i) = "rejected")

C6_Witness ==
    \E i \in Fut :
        /\ futs[i].status = "rejected" /\ futs[i].root = 1 /\ futs[i].err = "e2"
        /\ \E c \in futs[i].awaited : rstate[c] = "pending"

(* C7: a future that waits for a component which is closed while pending   *)
(* is eventually rejected.                                                 *)
C7_Claim ==
    \A i \in 1 .. MaxFut :
        (Status(i) = "pending" /\ \E c \in futs[i].open : closed[c] /\ rstate[c] = "pending")
        ~> (Status(i) = "rejected")

(* --------------------- claims on unbind and the tree -------------------- *)
(* C20: the parent relation is acyclic: no component is its own ancestor.  *)
C20_Claim == \A c \in Comp : c \notin Anc(parent, c)

(* C15: after a successful P.unbind(C) with P and C open and no other edge *)
(* between them, the next call does not propagate through the former edge: *)
(* close() on C leaves P open, close() on P leaves C open, and an 'error'  *)
(* emitted on C produces no event on P.                                    *)
C15_Claim ==
    [][(/\ op.name = "unbind" /\ op.res = "ok"
        /\ ~closed[op.c] /\ ~closed[op.sub] /\ op.c # op.sub
        /\ op.c \notin Desc(children, op.sub) /\ op.sub \notin Desc(children, op.c))
       => /\ (op'.name = "close" /\ op'.c = op.sub) => ~closed'[op.c]
          /\ (op'.name = "close" /\ op'.c = op.c) => ~closed'[op.sub]
          /\ (op'.name = "emit_error" /\ op'.c = op.sub)
                => ~\E l \in log' : l.at = op.c]_vars

(* C13: after close() on an open component R, R has no children, and no    *)
(* relay that re-emits a child's warn or info on R is left registered.     *)
C13_Claim ==
    (op.name = "close" /\ WasOpen(op.c))
    => /\ children[op.c] = {}
       /\ \A t \in Obj : ~\E i \in 1 .. Len(lst[t]) :
              lst[t][i].kind = "relay" /\ lst[t][i].who = op.c

(* C16: after P.bind(x, true) on a plain object x, with P open, closing x  *)
(* does not close P.                                                       *)
C16_Claim ==
    [][(/\ op.name = "bind" /\ op.res = "ok" /\ op.sub \in Plain /\ op.weak
        /\ ~closed[op.c]
        /\ op'.name = "plain_close" /\ op'.c = op.sub)
       => ~closed'[op.c]]_vars

(* ------------------------- claims on failure ---------------------------- *)
(* C11: a component whose readiness was rejected is closed, and after      *)
(* failed(err) or an 'error' event on a component, pending or ready, the   *)
(* component is closed.                                                    *)
C11_FailedCloses ==
    /\ \A c \in Comp : rstate[c] = "failed" => closed[c]
    /\ op.name \in {"failed", "emit_error"} => closed[op.c]

C11_Witness ==
    /\ op.name = "failed" /\ WasOpen(op.c)
    /\ rstate[op.c] = "ready" /\ closed[op.c]
    /\ \E d \in Comp : rstate[d] = "failed" /\ d # op.c

(* C12: readiness settles at most once: a pending component becomes ready  *)
(* or failed, never both, and a settled one keeps its outcome and its      *)
(* rejection reason whatever is called afterwards.                         *)
C12_SettlesOnce ==
    [][\A c \in Comp :
        /\ rstate[c] # "pending" => (rstate'[c] = rstate[c] /\ rerr'[c] = rerr[c])
        /\ rstate'[c] \in {"pending", "ready", "failed"}
        /\ rstate'[c] = "failed" <=> rerr'[c] # NoErr]_vars

C12_Witness ==
    /\ op.name = "ready" /\ rstate[op.c] = "failed"
    /\ \E d \in Comp : rstate[d] = "ready" /\ rerr[d] = NoErr /\ closed[d] /\ emits[d] = 1

(* ---------------------- claims on throwing listeners -------------------- *)
Throwing(c) == \E i \in 1 .. Len(lst[c]) : lst[c][i].kind = "app_throw"

(* C14: a component that closes ends detached from its parent, with no     *)
(* listener of its own and no subscription left, also when one of its      *)
(* close listeners throws; and every close listener called on it saw it    *)
(* still attached to its parent and was itself still registered.           *)
C14_CleanupAfterDispatch ==
    [][\A c \in Comp : (~closed[c] /\ closed'[c]) =>
         /\ parent'[c] = None /\ ~bound'[c]
         /\ parent[c] # None => c \notin children'[parent[c]]
         /\ lst'[c] = <<>>
         /\ \A t \in Obj : ~\E i \in 1 .. Len(lst'[t]) :
                lst'[t][i].managed /\ lst'[t][i].who = c
         /\ \A l \in log' : (l.ev = "close" /\ l.at = c)
                => (l.data.source = parent[c] /\ l.data.origin = c)]_vars

C14_Witness ==
    /\ op.name = "close" /\ op.res = "throw"
    /\ op.pre.parent # None /\ parent[op.c] = None
    /\ \E l \in log : l.at = op.c /\ l.data.type = "throw" /\ l.data.source = op.pre.parent

(* C17: when P, with no throwing close listener of its own, closes and the *)
(* close() of a child throws, every child of P is closed and P is detached *)
(* from its parent and has no listener left.                               *)
C17_CascadeGoesOn ==
    [][(/\ op'.name = "close" /\ ~closed[op'.c] /\ ~Throwing(op'.c)
        /\ \E k \in children[op'.c] : ~closed[k] /\ Throwing(k))
       => /\ \A k \in children[op'.c] : closed'[k]
          /\ op'.res = "ok"
          /\ parent'[op'.c] = None /\ lst'[op'.c] = <<>>
          /\ parent[op'.c] # None => op'.c \notin children'[parent[op'.c]]]_vars

C17_Witness ==
    /\ op.name = "close" /\ WasOpen(op.c) /\ op.res = "ok"
    /\ \E l \in log :
          /\ l.data.type = "throw" /\ l.at # op.c /\ l.data.source = op.c
          /\ \E d \in op.pre.desc \ {l.at, op.c} : WasOpen(d) /\ closed[d]

(* --------------------------- claims on link_event ----------------------- *)
(* C19: after R.link_event(e, true) on an open R, e emitted next on an     *)
(* open component below R, at any depth, is re-emitted on R.               *)
C19_Claim ==
    [][(/\ op.name = "link_event_recurse" /\ ~closed[op.c]
        /\ op'.name = "emit_event" /\ ~closed[op'.c]
        /\ op'.c \in Desc(children, op.c) \ {op.c})
       => \E l \in log' : l.at = op.c /\ l.ev = Tick]_vars

(* ------------------------ claims on the close hook ---------------------- *)
(* C18: close() on a component with a close hook marks it closed at once   *)
(* and calls the hook at most once; while the hook runs no close event has *)
(* been emitted and close has not detached the component; when the hook    *)
(* settles the close event is emitted once and the component is detached,  *)
(* and a failure of the hook is seen as an 'error' event on the component. *)
C18_Claim ==
    /\ [](\A c \in Comp :
            /\ hook[c].calls <= 1
            /\ hook[c].st = "running" => (closed[c] /\ emits[c] = 0 /\ detaches[c] = 0)
            /\ hook[c].st \notin {"none", "idle"} => closed[c])
    /\ [][\A c \in Comp : (hook[c].st = "running" /\ hook'[c].st # "running") =>
            /\ emits'[c] = 1
            /\ parent'[c] = None
            /\ parent[c] # None => c \notin children'[parent[c]]
            /\ hook'[c].st = "failed" =>
                 [at |-> c, ev |-> "error", data |-> ErrData(ErrOf(c))] \in log']_vars

(* --------------------- claims on closed components ---------------------- *)
(* C21: a component whose close has completed has no parent, is not marked *)
(* bound and is in no component's child set.                               *)
C21_Claim ==
    \A c \in Comp : (closed[c] /\ cleaned[c])
        => /\ parent[c] = None
           /\ ~bound[c]
           /\ \A q \in Comp : c \notin children[q]

====
